---- MODULE Spec2Model ----
(***************************************************************************)
(* Conversation memory of the assistant cog: the Conversation cache        *)
(* (src/assistant/models.py), the registry Conversations that hands out    *)
(* one Conversation per member, and the token helpers                      *)
(* (src/assistant/common/utils.py).                                        *)
(*                                                                         *)
(* Text is a sequence of characters over {"a","b"}.  The tokenizer is a    *)
(* byte-pair encoding with the single merge rule a b -> ab, so that the    *)
(* token count of a concatenation is not the sum of the token counts and   *)
(* decoding followed by encoding is not the identity on token sequences.   *)
(***************************************************************************)
EXTENDS Integers, Sequences, FiniteSets, TLC

\* ------------------------------------------------------------------ bounds
MaxAppend == 3
MaxTime == 3
MaxTokensBound == 3
MaxRetentionBound == 1
MaxRetentionTimeBound == 1
MaxInstances == 3
MaxFlows == 2
MaxStore == 3
MaxTopN == 2
MaxTextLen == 4
MaxChunkTokens == 4
MaxSaveTasks == 3
MaxBalance == 2
MaxCost == 2

\* ------------------------------------------------------------------ inputs
EmptyText == <<>>
\* the (role, message) arguments of update_messages
UpdateInputs ==
    {<<"user", EmptyText>>, <<"user", (<<"a">>)>>,
     <<"assistant", (<<"b", "a">>)>>}
SystemPrompts == {EmptyText, <<"a">>}
Prompts == {EmptyText, <<"b">>}
\* the (system_prompt, prompt) templates of a policy: none, or "a" and "b"
PolicyPrompts == {<<EmptyText, EmptyText>>, <<(<<"a">>), (<<"b">>)>>}
\* members as (member.id, member.guild.id)
Members == {<<1, 1>>, <<1, 11>>, <<11, 1>>}
OneMember == {<<1, 1>>}

\* GuildSettings, the fields the Conversation reads
GuildSettings(sp, p, mt, mr, mrt) ==
    [system_prompt |-> sp, prompt |-> p, max_tokens |-> mt,
     max_retention |-> mr, max_retention_time |-> mrt]

PreparePolicies ==
    {GuildSettings(pp[1], pp[2], mt, 0, 0) :
        pp \in PolicyPrompts, mt \in 0..MaxTokensBound}

ExpiryPolicies ==
    {GuildSettings(EmptyText, EmptyText, 0, 0, mrt) :
        mrt \in 0..MaxRetentionTimeBound}

CleanupPolicies ==
    {GuildSettings(EmptyText, EmptyText, 0, mr, mrt) :
        mr \in (0 - 1)..MaxRetentionBound, mrt \in 0..MaxRetentionTimeBound}

\* ------------------------------------------------------------------ tokenizer
RECURSIVE encode(_)
encode(s) ==
    IF s = <<>> THEN <<>>
    ELSE IF Len(s) >= 2 /\ s[1] = "a" /\ s[2] = "b"
         THEN << <<"a", "b">> >> \o encode(SubSeq(s, 3, Len(s)))
         ELSE << <<s[1]>> >> \o encode(Tail(s))

RECURSIVE decode(_)
decode(tokens) ==
    IF tokens = <<>> THEN <<>> ELSE Head(tokens) \o decode(Tail(tokens))

num_tokens_from_string(string) ==
    IF string = <<>> THEN 0 ELSE Len(encode(string))

\* variant: the chunk still being filled when the tokens run out is lost
RECURSIVE token_chunks_no_flush(_, _, _, _)
token_chunks_no_flush(tokens, max_tokens, current, done) ==
    IF tokens = <<>>
    THEN done
    ELSE LET c == Append(current, Head(tokens))
         IN  IF Len(c) = max_tokens
             THEN token_chunks_no_flush(Tail(tokens), max_tokens, <<>>,
                                        Append(done, c))
             ELSE token_chunks_no_flush(Tail(tokens), max_tokens, c, done)

\* the loop of token_pagify: current is current_chunk, done is token_chunks
RECURSIVE token_chunks(_, _, _, _)
token_chunks(tokens, max_tokens, current, done) ==
    IF tokens = <<>>
    THEN IF current # <<>> THEN Append(done, current) ELSE done
    ELSE LET c == Append(current, Head(tokens))
         IN  IF Len(c) = max_tokens
             THEN token_chunks(Tail(tokens), max_tokens, <<>>, Append(done, c))
             ELSE token_chunks(Tail(tokens), max_tokens, c, done)

token_pagify(text, max_tokens) ==
    LET chunks == token_chunks(encode(text), max_tokens, <<>>, <<>>)
    IN  [i \in 1..Len(chunks) |-> decode(chunks[i])]

\* round(max_tokens * 0.9): Python rounds halves to the even neighbour
round_09(m) ==
    LET q == (9 * m) \div 10
        r == (9 * m) % 10
    IN  IF r < 5 THEN q
        ELSE IF r > 5 THEN q + 1
        ELSE IF q % 2 = 0 THEN q ELSE q + 1

\* ------------------------------------------------------------------ Conversation
RECURSIVE join(_)
join(messages) ==
    IF messages = <<>> THEN <<>>
    ELSE Head(messages).content \o join(Tail(messages))

user_token_count(messages) ==
    num_tokens_from_string(IF messages = <<>> THEN <<>> ELSE join(messages))

conversation_token_count(messages, conf) ==
    num_tokens_from_string(conf.system_prompt \o conf.prompt)
        + user_token_count(messages)

\* variant: a count equal to the threshold is over budget too
over_budget_ge(messages, conf) ==
    20 * conversation_token_count(messages, conf) >= 19 * conf.max_tokens

\* conversation_token_count(conf) > conf.max_tokens * 0.95
over_budget(messages, conf) ==
    20 * conversation_token_count(messages, conf) > 19 * conf.max_tokens

\* variant: the comparison admits equality
is_expired_ge(conf, t, last_updated) ==
    IF conf.max_retention_time = 0 THEN FALSE
    ELSE (t - last_updated) >= conf.max_retention_time

is_expired(conf, t, last_updated) ==
    IF conf.max_retention_time = 0 THEN FALSE
    ELSE (t - last_updated) > conf.max_retention_time

\* variant: messages[:n], the oldest n instead of the newest n
first_slice(messages, n) ==
    SubSeq(messages, 1, IF n > Len(messages) THEN Len(messages) ELSE n)

\* messages[-n:] of Python for any integer n # 0
last_slice(messages, n) ==
    LET len == Len(messages)
        start == IF n > 0 THEN (IF len - n < 0 THEN 0 ELSE len - n)
                 ELSE (IF (0 - n) > len THEN len ELSE 0 - n)
    IN  SubSeq(messages, start + 1, len)

\* variant: messages[n:], dropping the oldest n instead of keeping the newest n
cleanup_messages_drop_first(messages, conf, expired) ==
    IF expired \/ conf.max_retention = 0 THEN <<>>
    ELSE IF conf.max_retention > 0
         THEN SubSeq(messages, conf.max_retention + 1, Len(messages))
         ELSE last_slice(messages, 0 - conf.max_retention)

cleanup_messages(messages, conf, expired) ==
    IF expired \/ conf.max_retention = 0 THEN <<>>
    ELSE last_slice(messages, conf.max_retention)

\* variant: the loop also drops the last remaining message
RECURSIVE drop_oldest_to_empty(_, _)
drop_oldest_to_empty(messages, conf) ==
    IF over_budget(messages, conf) /\ Len(messages) > 0
    THEN drop_oldest_to_empty(Tail(messages), conf)
    ELSE messages

\* variant: pop() instead of pop(0), dropping the newest message
RECURSIVE drop_newest(_, _)
drop_newest(messages, conf) ==
    IF over_budget(messages, conf) /\ Len(messages) > 1
    THEN drop_newest(SubSeq(messages, 1, Len(messages) - 1), conf)
    ELSE messages

\* the while loop of prepare_chat
RECURSIVE drop_oldest(_, _)
drop_oldest(messages, conf) ==
    IF over_budget(messages, conf) /\ Len(messages) > 1
    THEN drop_oldest(Tail(messages), conf)
    ELSE messages

\* the part of prepare_chat after the loop: the stored messages it leaves,
\* and whether it raises IndexError (messages[0] or chunks[0] missing)
truncate_raises(messages, conf) ==
    /\ over_budget(messages, conf)
    /\ \/ messages = <<>>
       \/ token_pagify(messages[1].content, round_09(conf.max_tokens)) = <<>>

truncate_survivor(messages, conf) ==
    IF over_budget(messages, conf) /\ ~truncate_raises(messages, conf)
    THEN [messages EXCEPT ![1].content =
            token_pagify(messages[1].content, round_09(conf.max_tokens))[1]]
    ELSE messages

prepare_messages(messages, conf) ==
    truncate_survivor(drop_oldest(messages, conf), conf)

prepare_raises(messages, conf) ==
    truncate_raises(drop_oldest(messages, conf), conf)

Turn(role, content) == [role |-> role, content |-> content]

\* the list prepare_chat returns: built before the budget is enforced; it
\* shares its message dicts with self.messages, so a truncated survivor
\* (always the newest message) shows its new content
prepared_head(system_prompt, initial_prompt) ==
    (IF system_prompt # <<>> THEN <<Turn("system", system_prompt)>> ELSE <<>>)
    \o (IF initial_prompt # <<>> THEN <<Turn("user", initial_prompt)>> ELSE <<>>)

prepared_history(messages, conf) ==
    LET after == prepare_messages(messages, conf)
    IN  IF messages = <<>> THEN <<>>
        ELSE IF Len(after) = 1
             THEN [messages EXCEPT ![Len(messages)] = after[1]]
             ELSE messages

prepare_chat_result(messages, conf, system_prompt, initial_prompt) ==
    prepared_head(system_prompt, initial_prompt) \o prepared_history(messages, conf)

\* ------------------------------------------------------------------ Conversations
RECURSIVE num_digits(_)
num_digits(n) == IF n < 10 THEN 1 ELSE 1 + num_digits(n \div 10)

RECURSIVE pow10(_)
pow10(d) == IF d = 0 THEN 1 ELSE 10 * pow10(d - 1)

\* key = f"{member.id}{member.guild.id}": the two decimal numerals written
\* one after the other, held as the number that numeral denotes
conversation_key(member) ==
    member[1] * pow10(num_digits(member[2])) + member[2]

\* variant: the membership test is lost, every lookup creates
has_conversation_never(convs, key) == FALSE

has_conversation(convs, key) == key \in DOMAIN convs

\* Conversation(): the field defaults
NewConversation == [messages |-> <<>>, last_updated |-> 0]

\* ------------------------------------------------------------------ state
VARIABLES
    conversations,  \* Conversations.conversations: key -> Conversation object
    heap,           \* the Conversation objects, by identity (index)
    now,            \* datetime.now().timestamp()
    appended,       \* history: per object, every turn update_messages appended
    first_ret,      \* history: per member, the object its first lookup returned
    last,           \* the last call: its arguments, its result
    flows,          \* the request flows of the host that look a member up
    embeddings,     \* GuildSettings.embeddings, in insertion order
    fetch,          \* the running get_embedding_async call
    saver,          \* LevelUp.saving and the _save tasks save() created
    payment         \* the running cost_check call and the bank balance

vars == <<conversations, heap, now, appended, first_ret, last,
          flows, embeddings, fetch, saver, payment>>

\* what the Conversation methods never touch
others == <<flows, embeddings, fetch, saver, payment>>

NoConf == GuildSettings(EmptyText, EmptyText, 0, 0, 0)
NoMember == <<0, 0>>

Call(op, h, member, conf, pre, ret, raised, flag) ==
    [op |-> op, h |-> h, member |-> member, conf |-> conf, pre |-> pre,
     ret |-> ret, raised |-> raised, flag |-> flag,
     system_prompt |-> EmptyText, initial_prompt |-> EmptyText]

\* a request flow: idle, suspended at an await before its lookup, or done
Flows == 1..MaxFlows
NoFlows ==
    [f \in Flows |-> [pc |-> "idle", member |-> NoMember, seen |-> {},
                      handle |-> 0, created |-> FALSE]]

\* get_embedding_async when no call is running
NoFetch == [pc |-> "idle", text |-> EmptyText, tries |-> 0, calls |-> 0,
            log |-> <<>>, result |-> <<>>, raised |-> FALSE]

\* LevelUp after __init__: saving is False and save() was never called
SaveTasks == 1..MaxSaveTasks
NoSaver == [saving |-> FALSE, task |-> [t \in SaveTasks |-> "none"]]

\* cost_check when no call is running
NoPayment ==
    [pc |-> "idle", has_cost |-> FALSE, cost |-> 0, prompt |-> "silent",
     is_slash |-> FALSE, balance |-> 0, checked |-> FALSE, withdrawn |-> 0,
     usage |-> 0, ret |-> "none"]

RECURSIVE total_appended(_)
total_appended(hist) ==
    IF hist = <<>> THEN 0 ELSE Len(Head(hist)) + total_appended(Tail(hist))

Init ==
    /\ conversations = <<>>
    /\ heap = <<>>
    /\ now = 1
    /\ appended = <<>>
    /\ first_ret = <<>>
    /\ last = Call("init", 0, NoMember, NoConf, <<>>, <<>>, FALSE, FALSE)
    /\ flows = NoFlows
    /\ embeddings = <<>>
    /\ fetch = NoFetch
    /\ saver = NoSaver
    /\ payment = NoPayment

\* ------------------------------------------------------------------ actions
Tick ==
    /\ now < MaxTime
    /\ now' = now + 1
    /\ last' = Call("tick", 0, NoMember, NoConf, <<>>, <<>>, FALSE, FALSE)
    /\ UNCHANGED <<conversations, heap, appended, first_ret, others>>

get_conversation_step(member) ==
    LET key == conversation_key(member)
        found == has_conversation(conversations, key)
        obj == IF found THEN conversations[key] ELSE Len(heap) + 1
    IN  /\ found \/ Len(heap) < MaxInstances
        /\ IF found
           THEN UNCHANGED <<conversations, heap, appended>>
           ELSE /\ heap' = Append(heap, NewConversation)
                /\ appended' = Append(appended, <<>>)
                /\ conversations' =
                      [k \in DOMAIN conversations \cup {key} |->
                          IF k = key THEN obj ELSE conversations[k]]
        /\ first_ret' = IF member \in DOMAIN first_ret THEN first_ret
                        ELSE [m \in DOMAIN first_ret \cup {member} |->
                                 IF m = member THEN obj ELSE first_ret[m]]
        /\ last' = Call("get_conversation", obj, member, NoConf, <<>>, <<>>,
                        FALSE, ~found)

get_conversation(member) ==
    get_conversation_step(member) /\ UNCHANGED <<now, others>>

update_messages(h, message, role) ==
    /\ total_appended(appended) < MaxAppend
    /\ heap' = [heap EXCEPT ![h] =
                  [messages |-> Append(heap[h].messages, Turn(role, message)),
                   last_updated |-> now]]
    /\ appended' = [appended EXCEPT ![h] = Append(appended[h], Turn(role, message))]
    /\ last' = Call("update_messages", h, NoMember, NoConf, heap[h].messages,
                    <<>>, FALSE, FALSE)
    /\ UNCHANGED <<conversations, now, first_ret, others>>

is_expired_call(h, conf) ==
    /\ last' = Call("is_expired", h, NoMember, conf, heap[h].messages, <<>>,
                    FALSE, is_expired(conf, now, heap[h].last_updated))
    /\ UNCHANGED <<conversations, heap, now, appended, first_ret, others>>

\* variant: clearing goes through reset(), which stamps last_updated
cleanup_by_reset(h, conf) ==
    LET expired == is_expired(conf, now, heap[h].last_updated)
        kept == cleanup_messages(heap[h].messages, conf, expired)
    IN  /\ heap' = [heap EXCEPT ![h] =
                      [messages |-> kept,
                       last_updated |-> IF kept = <<>> THEN now
                                        ELSE heap[h].last_updated]]
        /\ last' = Call("cleanup", h, NoMember, conf, heap[h].messages, <<>>,
                        FALSE, expired)
        /\ UNCHANGED <<conversations, now, appended, first_ret, others>>

cleanup(h, conf) ==
    LET expired == is_expired(conf, now, heap[h].last_updated)
    IN  /\ heap' = [heap EXCEPT ![h].messages =
                      cleanup_messages(heap[h].messages, conf, expired)]
        /\ last' = Call("cleanup", h, NoMember, conf, heap[h].messages, <<>>,
                        FALSE, expired)
        /\ UNCHANGED <<conversations, now, appended, first_ret, others>>

reset(h) ==
    /\ heap' = [heap EXCEPT ![h] = [messages |-> <<>>, last_updated |-> now]]
    /\ last' = Call("reset", h, NoMember, NoConf, heap[h].messages, <<>>,
                    FALSE, FALSE)
    /\ UNCHANGED <<conversations, now, appended, first_ret, others>>

prepare_chat(h, conf, system_prompt, initial_prompt) ==
    LET messages == heap[h].messages
        raised == prepare_raises(messages, conf)
    IN  /\ heap' = [heap EXCEPT ![h].messages =
                      IF raised THEN drop_oldest(messages, conf)
                      ELSE prepare_messages(messages, conf)]
        /\ last' = [Call("prepare_chat", h, NoMember, conf, messages,
                         IF raised THEN <<>>
                         ELSE prepare_chat_result(messages, conf, system_prompt,
                                                  initial_prompt),
                         raised, FALSE)
                     EXCEPT !.system_prompt = system_prompt,
                            !.initial_prompt = initial_prompt]
        /\ UNCHANGED <<conversations, now, appended, first_ret, others>>

Objects == 1..Len(heap)

\* one member's conversation under the token budget: the clock stands still
BudgetCleanupPolicies ==
    {GuildSettings(EmptyText, EmptyText, 0, mr, 0) : mr \in {0, 1}}

Next ==
    \/ \E m \in OneMember : get_conversation(m)
    \/ \E h \in Objects, u \in UpdateInputs : update_messages(h, u[2], u[1])
    \/ \E h \in Objects, conf \in BudgetCleanupPolicies : cleanup(h, conf)
    \/ \E h \in Objects : reset(h)
    \/ \E h \in Objects, conf \in PreparePolicies,
          sp \in SystemPrompts, ip \in Prompts : prepare_chat(h, conf, sp, ip)

Spec == Init /\ [][Next]_vars

\* one member's conversation under the retention policy, as time passes
RetentionUpdateInputs ==
    {<<"user", (<<"a">>)>>, <<"assistant", (<<"b", "a">>)>>}
RetentionPreparePolicies == {GuildSettings(EmptyText, EmptyText, 1, 0, 0)}

NextRetention ==
    \/ Tick
    \/ \E m \in OneMember : get_conversation(m)
    \/ \E h \in Objects, u \in RetentionUpdateInputs :
          update_messages(h, u[2], u[1])
    \/ \E h \in Objects, conf \in ExpiryPolicies : is_expired_call(h, conf)
    \/ \E h \in Objects, conf \in CleanupPolicies : cleanup(h, conf)
    \/ \E h \in Objects : reset(h)
    \/ \E h \in Objects, conf \in RetentionPreparePolicies :
          prepare_chat(h, conf, EmptyText, EmptyText)

SpecRetention == Init /\ [][NextRetention]_vars

\* the registry with several members, some of whose keys coincide
RegistryUpdateInputs == {<<"user", (<<"a">>)>>}
RegistryCleanupPolicies == {GuildSettings(EmptyText, EmptyText, 0, 1, 0)}
RegistryPreparePolicies == {GuildSettings(EmptyText, EmptyText, 1, 0, 0)}

NextRegistry ==
    \/ Tick
    \/ \E m \in Members : get_conversation(m)
    \/ \E h \in Objects, u \in RegistryUpdateInputs :
          update_messages(h, u[2], u[1])
    \/ \E h \in Objects, conf \in RegistryCleanupPolicies : cleanup(h, conf)
    \/ \E h \in Objects : reset(h)
    \/ \E h \in Objects, conf \in RegistryPreparePolicies :
          prepare_chat(h, conf, EmptyText, EmptyText)

SpecRegistry == Init /\ [][NextRegistry]_vars

\* ------------------------------------------------------------------ request flows
\* a flow of the host starts handling a request for a member and is
\* suspended at an await before it reaches the registry; `seen` is the
\* registry as it stood when the flow was suspended
flow_begin(f, member) ==
    /\ flows[f].pc = "idle"
    /\ flows' = [flows EXCEPT ![f] =
                   [pc |-> "suspended", member |-> member,
                    seen |-> DOMAIN conversations, handle |-> 0,
                    created |-> FALSE]]
    /\ last' = Call("flow_begin", 0, member, NoConf, <<>>, <<>>, FALSE, FALSE)
    /\ UNCHANGED <<conversations, heap, now, appended, first_ret,
                   embeddings, fetch, saver, payment>>

\* variant: an await sits between the membership test and the insertion,
\* so the test is the one made before the flow was suspended
flow_get_stale(f) ==
    LET member == flows[f].member
        key == conversation_key(member)
        found == key \in flows[f].seen
        obj == IF found THEN conversations[key] ELSE Len(heap) + 1
    IN  /\ flows[f].pc = "suspended"
        /\ found \/ Len(heap) < MaxInstances
        /\ IF found
           THEN UNCHANGED <<conversations, heap, appended>>
           ELSE /\ heap' = Append(heap, NewConversation)
                /\ appended' = Append(appended, <<>>)
                /\ conversations' =
                      [k \in DOMAIN conversations \cup {key} |->
                          IF k = key THEN obj ELSE conversations[k]]
        /\ first_ret' = IF member \in DOMAIN first_ret THEN first_ret
                        ELSE [m \in DOMAIN first_ret \cup {member} |->
                                 IF m = member THEN obj ELSE first_ret[m]]
        /\ last' = Call("get_conversation", obj, member, NoConf, <<>>, <<>>,
                        FALSE, ~found)
        /\ flows' = [flows EXCEPT ![f].pc = "done", ![f].handle = obj,
                                  ![f].created = ~found]
        /\ UNCHANGED <<now, embeddings, fetch, saver, payment>>

\* the flow is resumed and calls get_conversation: the method has no await,
\* so the test and the insertion are one step of the event loop
flow_get(f) ==
    /\ flows[f].pc = "suspended"
    /\ get_conversation_step(flows[f].member)
    /\ flows' = [flows EXCEPT ![f].pc = "done", ![f].handle = last'.h,
                              ![f].created = last'.flag]
    /\ UNCHANGED <<now, embeddings, fetch, saver, payment>>

\* the flow appends the turn it handles through the handle it obtained
flow_update(f, message, role) ==
    /\ flows[f].pc = "done"
    /\ update_messages(flows[f].handle, message, role)

NextFlows ==
    \/ \E f \in Flows, m \in Members : flow_begin(f, m)
    \/ \E f \in Flows : flow_get(f)
    \/ \E f \in Flows, u \in RegistryUpdateInputs : flow_update(f, u[2], u[1])

SpecFlows == Init /\ [][NextFlows]_vars

\* ------------------------------------------------------------------ embeddings
\* embedding vectors with integral norms; a similarity is held in hundredths
Vectors == {<<1, 0>>, <<3, 4>>, <<4, 3>>, <<3, -4>>}
Queries == {<<>>, <<1, 0>>, <<3, 4>>}
Texts == <<"A", "B", "C", "D", "E">>
MinRelatedness == {0, 60, 75}

Embedding(text, embedding) == [text |-> text, embedding |-> embedding]

\* the stores of up to MaxStore entries, the i-th entry holding the i-th text
Stores ==
    UNION {{[i \in 1..n |-> Embedding(Texts[i], vs[i])] : vs \in [1..n -> Vectors]} :
              n \in 0..MaxStore}

RelatedPolicies ==
    {[top_n |-> n, min_relatedness |-> r] :
        n \in (0 - 1)..MaxTopN, r \in MinRelatedness}

RECURSIVE dot(_, _)
dot(a, b) ==
    IF a = <<>> THEN 0 ELSE Head(a) * Head(b) + dot(Tail(a), Tail(b))

norm(a) == CHOOSE r \in 0..dot(a, a) : r * r = dot(a, a)

\* openai.embeddings_utils.cosine_similarity, in hundredths
cosine_similarity(a, b) == (100 * dot(a, b)) \div (norm(a) * norm(b))

\* variant: top_n = 0 is not tested
related_returns_early_no_top_n(conf, store, query) ==
    query = <<>> \/ store = <<>>

related_returns_early(conf, store, query) ==
    conf.top_n = 0 \/ query = <<>> \/ store = <<>>

strings_and_relatedness(store, query) ==
    [i \in 1..Len(store) |->
        <<store[i].text, cosine_similarity(query, store[i].embedding)>>]

\* variant: the threshold is not applied
at_least_unfiltered(pairs, min_relatedness) == pairs

at_least(pairs, min_relatedness) ==
    SelectSeq(pairs, LAMBDA x : x[2] >= min_relatedness)

\* variant: equal scores come out in reverse storage order
RECURSIVE insert_desc_before_equal(_, _)
insert_desc_before_equal(sorted, x) ==
    IF sorted = <<>> THEN <<x>>
    ELSE IF Head(sorted)[2] > x[2]
         THEN <<Head(sorted)>> \o insert_desc_before_equal(Tail(sorted), x)
         ELSE <<x>> \o sorted

\* list.sort(key=score, reverse=True): stable, equal scores keep their order
RECURSIVE insert_desc(_, _)
insert_desc(sorted, x) ==
    IF sorted = <<>> THEN <<x>>
    ELSE IF Head(sorted)[2] >= x[2]
         THEN <<Head(sorted)>> \o insert_desc(Tail(sorted), x)
         ELSE <<x>> \o sorted

RECURSIVE sort_desc(_)
sort_desc(pairs) ==
    IF pairs = <<>> THEN <<>>
    ELSE insert_desc(sort_desc(SubSeq(pairs, 1, Len(pairs) - 1)),
                     pairs[Len(pairs)])

\* seq[:n] of Python
take(seq, n) ==
    LET stop == IF n >= 0 THEN (IF n > Len(seq) THEN Len(seq) ELSE n)
                ELSE (IF Len(seq) + n < 0 THEN 0 ELSE Len(seq) + n)
    IN  SubSeq(seq, 1, stop)

get_related_embeddings(conf, store, query) ==
    IF related_returns_early(conf, store, query) THEN <<>>
    ELSE take(sort_desc(at_least(strings_and_relatedness(store, query),
                                 conf.min_relatedness)),
              conf.top_n)

\* how many times get_related_embeddings calls cosine_similarity
similarities_computed(conf, store, query) ==
    IF related_returns_early(conf, store, query) THEN 0 ELSE Len(store)

InitRelated ==
    /\ conversations = <<>>
    /\ heap = <<>>
    /\ now = 1
    /\ appended = <<>>
    /\ first_ret = <<>>
    /\ last = Call("init", 0, NoMember, NoConf, <<>>, <<>>, FALSE, FALSE)
    /\ flows = NoFlows
    /\ embeddings \in Stores
    /\ fetch = NoFetch
    /\ saver = NoSaver
    /\ payment = NoPayment

\* a call of get_related_embeddings: `pre` holds the query, `ret` the list
\* returned and the number of similarities computed
related_call(conf, query) ==
    /\ last' = Call("get_related_embeddings", 0, NoMember, conf, query,
                    [entries |-> get_related_embeddings(conf, embeddings, query),
                     computed |-> similarities_computed(conf, embeddings, query)],
                    FALSE, FALSE)
    /\ UNCHANGED <<conversations, heap, now, appended, first_ret, others>>

NextRelated ==
    \E conf \in RelatedPolicies, query \in Queries : related_call(conf, query)

SpecRelated == InitRelated /\ [][NextRelated]_vars

\* ------------------------------------------------------------------ get_embedding_async
MaxTries == 3
FetchTexts == {<<"a">>, <<"b", "a">>, <<"a", "b">>}
ProviderErrors == {"APIError", "Timeout"}

\* variant: the loop admits a fourth attempt
may_try_once_more(tries) == tries <= MaxTries

\* while tries < 3
may_try(tries) == tries < MaxTries

\* get_embedding_async(text) is called and reaches its first await
fetch_start(text) ==
    /\ fetch.pc \in {"idle", "done"}
    /\ fetch' = IF may_try(0)
                THEN [pc |-> "awaiting", text |-> text, tries |-> 0,
                      calls |-> 1, log |-> <<>>, result |-> <<>>,
                      raised |-> FALSE]
                ELSE [pc |-> "done", text |-> text, tries |-> 0,
                      calls |-> 0, log |-> <<>>, result |-> <<>>,
                      raised |-> FALSE]
    /\ last' = Call("get_embedding_async", 0, NoMember, NoConf, text, <<>>,
                    FALSE, FALSE)
    /\ UNCHANGED <<conversations, heap, now, appended, first_ret, flows,
                   embeddings, saver, payment>>

\* the provider call returns a vector: it is returned at once
provider_returns(embedding) ==
    /\ fetch.pc = "awaiting"
    /\ fetch' = [fetch EXCEPT !.pc = "done", !.result = embedding]
    /\ last' = Call("provider_returns", 0, NoMember, NoConf, fetch.text,
                    embedding, FALSE, FALSE)
    /\ UNCHANGED <<conversations, heap, now, appended, first_ret, flows,
                   embeddings, saver, payment>>

\* the provider call raises an Exception: it is logged, tries is
\* incremented and the loop test decides between a new call and return []
provider_raises(error) ==
    /\ fetch.pc = "awaiting"
    /\ fetch' = IF may_try(fetch.tries + 1)
                THEN [fetch EXCEPT !.tries = @ + 1, !.calls = @ + 1,
                                   !.log = Append(@, error)]
                ELSE [fetch EXCEPT !.pc = "done", !.tries = @ + 1,
                                   !.log = Append(@, error), !.result = <<>>]
    /\ last' = Call("provider_raises", 0, NoMember, NoConf, fetch.text,
                    <<>>, TRUE, FALSE)
    /\ UNCHANGED <<conversations, heap, now, appended, first_ret, flows,
                   embeddings, saver, payment>>

ProviderResponds ==
    \/ \E v \in Vectors : provider_returns(v)
    \/ \E e \in ProviderErrors : provider_raises(e)

NextFetch ==
    \/ \E text \in FetchTexts : fetch_start(text)
    \/ \E v \in Vectors : provider_returns(v)
    \/ \E e \in ProviderErrors : provider_raises(e)

\* asyncio.to_thread completes: every provider call returns or raises
SpecFetch == Init /\ [][NextFetch]_vars /\ WF_vars(ProviderResponds)

\* ------------------------------------------------------------------ token_pagify
PagifyTexts ==
    UNION {[1..n -> {"a", "b"}] : n \in 0..MaxTextLen}

\* token_pagify(text, max_tokens) called on its own; the token chunks it
\* builds are recorded next to the text chunks it returns
token_pagify_call(text, max_tokens) ==
    /\ last' = Call("token_pagify", 0, NoMember, NoConf,
                    [text |-> text, max_tokens |-> max_tokens],
                    [token_chunks |->
                        token_chunks(encode(text), max_tokens, <<>>, <<>>),
                     text_chunks |-> token_pagify(text, max_tokens)],
                    FALSE, FALSE)
    /\ UNCHANGED <<conversations, heap, now, appended, first_ret, others>>

NextPagify ==
    \E text \in PagifyTexts, max_tokens \in 1..MaxChunkTokens :
        token_pagify_call(text, max_tokens)

SpecPagify == Init /\ [][NextPagify]_vars

\* ------------------------------------------------------------------ LevelUp.save
\* a _save task: "none" (not created), "scheduled" (created by save(), not
\* yet run), "writing" (suspended at await asyncio.to_thread), and its three
\* ends "skipped", "saved" and "failed"
SaveUnchanged ==
    UNCHANGED <<conversations, heap, now, appended, first_ret, flows,
                embeddings, fetch, payment>>

\* save(): asyncio.create_task(_save())
save(t) ==
    /\ saver.task[t] \in {"none", "skipped", "saved", "failed"}
    /\ saver' = [saver EXCEPT !.task[t] = "scheduled"]
    /\ last' = Call("save", t, NoMember, NoConf, <<>>, <<>>, FALSE,
                    saver.saving)
    /\ SaveUnchanged

\* variant: the task writes without looking at the flag
save_task_runs_unguarded(t) ==
    /\ saver.task[t] = "scheduled"
    /\ saver' = [saving |-> TRUE,
                 task |-> [saver.task EXCEPT ![t] = "writing"]]
    /\ last' = Call("_save", t, NoMember, NoConf, <<>>, <<>>, FALSE,
                    saver.saving)
    /\ SaveUnchanged

\* the event loop runs _save up to its await: the test of self.saving and
\* the assignment self.saving = True have no await between them
save_task_runs(t) ==
    /\ saver.task[t] = "scheduled"
    /\ saver' = IF saver.saving
                THEN [saver EXCEPT !.task[t] = "skipped"]
                ELSE [saving |-> TRUE,
                      task |-> [saver.task EXCEPT ![t] = "writing"]]
    /\ last' = Call("_save", t, NoMember, NoConf, <<>>, <<>>, FALSE,
                    saver.saving)
    /\ SaveUnchanged

\* db.to_file returns in its thread: last_save is set, then finally
write_returns(t) ==
    /\ saver.task[t] = "writing"
    /\ saver' = [saving |-> FALSE,
                 task |-> [saver.task EXCEPT ![t] = "saved"]]
    /\ last' = Call("write_returns", t, NoMember, NoConf, <<>>, <<>>, FALSE,
                    saver.saving)
    /\ SaveUnchanged

\* db.to_file raises an Exception: it is logged, then finally
write_raises(t) ==
    /\ saver.task[t] = "writing"
    /\ saver' = [saving |-> FALSE,
                 task |-> [saver.task EXCEPT ![t] = "failed"]]
    /\ last' = Call("write_raises", t, NoMember, NoConf, <<>>, <<>>, TRUE,
                    saver.saving)
    /\ SaveUnchanged

WriteCompletes ==
    \E t \in SaveTasks : write_returns(t) \/ write_raises(t)

NextSave ==
    \/ \E t \in SaveTasks : save(t)
    \/ \E t \in SaveTasks : save_task_runs(t)
    \/ \E t \in SaveTasks : write_returns(t)
    \/ \E t \in SaveTasks : write_raises(t)

\* the thread started by asyncio.to_thread runs to its end: db.to_file
\* returns or raises
SpecSave == Init /\ [][NextSave]_vars /\ WF_vars(WriteCompletes)

\* ------------------------------------------------------------------ Checks.cost_check
CostPrompts == {"text", "reaction", "button", "notify", "silent", "other"}

PaymentUnchanged ==
    UNCHANGED <<conversations, heap, now, appended, first_ret, flows,
                embeddings, fetch, saver>>

PaymentCall(op) ==
    Call(op, 0, NoMember, NoConf, <<>>, <<>>, FALSE, FALSE)

\* cost_check is called and runs to its first await after get_cost: it
\* returns True without a cost object or with cost 0 (recording the usage),
\* raises on an unknown prompt, and otherwise waits for the confirmation,
\* for can_spend or for withdraw_credits
cost_check(has_cost, cost, prompt, is_slash, balance) ==
    LET call == [NoPayment EXCEPT !.has_cost = has_cost, !.cost = cost,
                                  !.prompt = prompt, !.is_slash = is_slash,
                                  !.balance = balance]
    IN  /\ payment.pc \in {"idle", "done"}
        /\ payment' =
              IF ~has_cost
              THEN [call EXCEPT !.pc = "done", !.ret = "True"]
              ELSE IF cost = 0
              THEN [call EXCEPT !.pc = "done", !.usage = 1, !.ret = "True"]
              ELSE IF ~is_slash /\ prompt # "silent"
              THEN IF prompt = "notify"
                   THEN [call EXCEPT !.pc = "can_spend"]
                   ELSE IF prompt \in {"text", "reaction", "button"}
                   THEN [call EXCEPT !.pc = "confirming"]
                   ELSE [call EXCEPT !.pc = "done", !.ret = "raised"]
              ELSE [call EXCEPT !.pc = "withdrawing"]
        /\ last' = PaymentCall("cost_check")
        /\ PaymentUnchanged

\* the user answers the confirmation (or it times out): if not yes,
\* return False
confirm(yes) ==
    /\ payment.pc = "confirming"
    /\ payment' = IF yes THEN [payment EXCEPT !.pc = "can_spend"]
                  ELSE [payment EXCEPT !.pc = "done", !.ret = "False"]
    /\ last' = PaymentCall("confirm")
    /\ PaymentUnchanged

\* if not await bank.can_spend(user, cost): return False
can_spend ==
    /\ payment.pc = "can_spend"
    /\ payment' = IF payment.balance >= payment.cost
                  THEN [payment EXCEPT !.pc = "withdrawing", !.checked = TRUE]
                  ELSE [payment EXCEPT !.pc = "done", !.ret = "False"]
    /\ last' = PaymentCall("can_spend")
    /\ PaymentUnchanged

\* variant: the usage is recorded before the withdrawal is attempted
withdraw_credits_usage_first ==
    /\ payment.pc = "withdrawing"
    /\ payment' = IF payment.balance >= payment.cost
                  THEN [payment EXCEPT !.pc = "done",
                                       !.balance = @ - payment.cost,
                                       !.withdrawn = @ + payment.cost,
                                       !.usage = @ + 1, !.ret = "True"]
                  ELSE [payment EXCEPT !.pc = "done", !.usage = @ + 1,
                                       !.ret = "False"]
    /\ last' = PaymentCall("withdraw_credits")
    /\ PaymentUnchanged

\* the try block: bank.withdraw_credits takes the cost or raises ValueError
\* on a balance too low; after it update_usage and return True, on
\* ValueError return False
withdraw_credits ==
    /\ payment.pc = "withdrawing"
    /\ payment' = IF payment.balance >= payment.cost
                  THEN [payment EXCEPT !.pc = "done",
                                       !.balance = @ - payment.cost,
                                       !.withdrawn = @ + payment.cost,
                                       !.usage = @ + 1, !.ret = "True"]
                  ELSE [payment EXCEPT !.pc = "done", !.ret = "False"]
    /\ last' = PaymentCall("withdraw_credits")
    /\ PaymentUnchanged

\* while cost_check is suspended at an await, another command of the same
\* user spends a credit
other_spends ==
    /\ payment.pc \in {"confirming", "can_spend", "withdrawing"}
    /\ payment.balance > 0
    /\ payment' = [payment EXCEPT !.balance = @ - 1]
    /\ last' = PaymentCall("other_spends")
    /\ PaymentUnchanged

NextCost ==
    \/ \E has_cost \in BOOLEAN, cost \in 0..MaxCost, prompt \in CostPrompts,
          is_slash \in BOOLEAN, balance \in 0..MaxBalance :
            cost_check(has_cost, cost, prompt, is_slash, balance)
    \/ \E yes \in BOOLEAN : confirm(yes)
    \/ can_spend
    \/ withdraw_credits
    \/ other_spends

SpecCost == Init /\ [][NextCost]_vars

\* ------------------------------------------------------------------ properties
IsPrepare == last.op = "prepare_chat"
Stored == heap[last.h].messages

HeadLen ==
    (IF last.system_prompt # <<>> THEN 1 ELSE 0)
        + (IF last.initial_prompt # <<>> THEN 1 ELSE 0)

ReturnedHistory == SubSeq(last.ret, HeadLen + 1, Len(last.ret))

Suffix(seq, from) == SubSeq(seq, from + 1, Len(seq))

\* C1: for max_tokens >= 1 the stored-history turns in the sequence that
\* prepare_chat returns total at most max_tokens tokens.
C1_ReturnedWithinBudget ==
    (IsPrepare /\ ~last.raised /\ last.conf.max_tokens >= 1)
        => user_token_count(ReturnedHistory) <= last.conf.max_tokens

\* C2: prepare_chat never raises, whatever the conversation and the policy.
C2_PrepareNeverRaises ==
    IsPrepare => ~last.raised

\* C3: prepare_chat drops oldest messages one at a time, each drop made while
\* the conversation is over budget and holds more than one message, and stops
\* at the first point where the budget is met or one message remains; so it
\* leaves the conversation within budget or with at most one message.
C3_PrepareDropsOldestUntilBudget ==
    IsPrepare =>
        LET pre == last.pre
            k == Len(pre) - Len(Stored)
        IN  /\ k >= 0
            /\ \A j \in 1..Len(Stored) : Stored[j].role = pre[k + j].role
            /\ \A j \in 0..(k - 1) :
                  over_budget(Suffix(pre, j), last.conf) /\ Len(pre) - j > 1
            /\ ~(over_budget(Suffix(pre, k), last.conf) /\ Len(pre) - k > 1)
            /\ (over_budget(pre, last.conf) /\ Len(pre) >= 2) => Len(Stored) < Len(pre)
            /\ ~over_budget(Stored, last.conf) \/ Len(Stored) <= 1

C3_Witness ==
    /\ IsPrepare
    /\ Len(last.pre) = 3
    /\ over_budget(last.pre, last.conf)
    /\ Len(Stored) = 2
    /\ ~over_budget(Stored, last.conf)

\* C4: the sequence prepare_chat returns is the system turn iff system_prompt
\* is non-empty, the user turn iff initial_prompt is non-empty, then the
\* stored history in its stored order, and no other turn.
C4_ReturnedIsHeadThenStored ==
    (IsPrepare /\ ~last.raised) =>
        last.ret =
            (IF last.system_prompt # <<>>
             THEN <<[role |-> "system", content |-> last.system_prompt]>> ELSE <<>>)
            \o (IF last.initial_prompt # <<>>
                THEN <<[role |-> "user", content |-> last.initial_prompt]>> ELSE <<>>)
            \o Stored

C6_LastUpdatedFrame ==
    [][/\ \A i \in 1..Len(heap) :
             heap'[i].last_updated # heap[i].last_updated
                 => last'.op \in {"update_messages", "reset"} /\ last'.h = i
       /\ (last'.op = "reset" /\ last' # last) =>
             heap'[last'.h] = [messages |-> <<>>, last_updated |-> now]
       /\ (last'.op = "update_messages" /\ heap' # heap) =>
             heap'[last'.h].last_updated = now
      ]_vars

C6_Witness ==
    /\ last.op = "cleanup"
    /\ last.flag
    /\ last.pre # <<>>
    /\ Stored = <<>>
    /\ heap[last.h].last_updated # now

\* C7: is_expired is true iff max_retention_time is nonzero and the time
\* since last_updated is strictly greater than it; never with
\* max_retention_time = 0, and not when the elapsed time equals it.
C7_IsExpiredIff ==
    last.op = "is_expired" =>
        LET mrt == last.conf.max_retention_time
            elapsed == now - heap[last.h].last_updated
        IN  /\ last.flag <=> (mrt # 0 /\ elapsed > mrt)
            /\ mrt = 0 => ~last.flag
            /\ elapsed = mrt => ~last.flag

C7_Witness ==
    /\ last.op = "is_expired"
    /\ last.conf.max_retention_time > 0
    /\ now - heap[last.h].last_updated = last.conf.max_retention_time
    /\ ~last.flag

IsPrefix(s, t) == Len(s) <= Len(t) /\ s = SubSeq(t, 1, Len(s))

\* C8 as claimed: the stored messages of every conversation are a contiguous
\* suffix of the turns update_messages appended to it.
C8_StoredIsSuffixOfAppended ==
    \A i \in 1..Len(heap) :
        LET n == Len(heap[i].messages)
            from == Len(appended[i]) - n
        IN  from >= 0 /\ heap[i].messages = Suffix(appended[i], from)

\* C8 as amended: the stored messages are, position by position, a
\* contiguous suffix of the appended turns with the roles as appended; the
\* contents are as appended except for the oldest stored message, whose
\* content may be an initial part of what was appended (prepare_chat
\* truncates the sole survivor).
C8_StoredIsSuffixUpToTruncation ==
    \A i \in 1..Len(heap) :
        LET n == Len(heap[i].messages)
            from == Len(appended[i]) - n
        IN  /\ from >= 0
            /\ \A j \in 1..n :
                  /\ heap[i].messages[j].role = appended[i][from + j].role
                  /\ j > 1 => heap[i].messages[j] = appended[i][from + j]
                  /\ IsPrefix(heap[i].messages[j].content,
                              appended[i][from + j].content)

C8_Witness ==
    \E i \in 1..Len(heap) :
        /\ Len(appended[i]) = 2
        /\ Len(heap[i].messages) = 1
        /\ heap[i].messages[1].role = appended[i][2].role
        /\ heap[i].messages[1].content # appended[i][2].content

\* C9: every lookup of a member returns the Conversation object that the
\* first lookup of that member returned, which stays registered under the
\* member's key; an object created by a lookup is empty with last_updated 0;
\* an entry of the registry is never replaced or removed.
C9_GetConversationIdempotent ==
    /\ [](/\ \A m \in DOMAIN first_ret :
               /\ conversation_key(m) \in DOMAIN conversations
               /\ conversations[conversation_key(m)] = first_ret[m]
          /\ last.op = "get_conversation" =>
               /\ last.h = first_ret[last.member]
               /\ last.flag => heap[last.h] = [messages |-> <<>>, last_updated |-> 0])
    /\ [][\A k \in DOMAIN conversations :
             k \in DOMAIN conversations' /\ conversations'[k] = conversations[k]]_vars

C9_Witness ==
    /\ last.op = "get_conversation"
    /\ ~last.flag
    /\ last.h = first_ret[last.member]
    /\ heap[last.h].messages # <<>>

\* C10: two distinct (user_id, guild_id) pairs are mapped to distinct
\* Conversation objects.
C10_DistinctMembersDistinctObjects ==
    \A m1 \in DOMAIN first_ret, m2 \in DOMAIN first_ret :
        m1 # m2 => first_ret[m1] # first_ret[m2]

FlowKey(f) == conversation_key(flows[f].member)

\* C11: whatever the interleaving of the flows' suspensions, at most one
\* Conversation object is created per key and every flow that looked the key
\* up holds that object.
C11_AtomicGetOrCreate ==
    /\ \A f \in Flows, g \in Flows :
          (flows[f].pc = "done" /\ flows[g].pc = "done" /\ FlowKey(f) = FlowKey(g))
              => flows[f].handle = flows[g].handle
    /\ \A f \in Flows :
          flows[f].pc = "done" =>
              /\ FlowKey(f) \in DOMAIN conversations
              /\ conversations[FlowKey(f)] = flows[f].handle
    /\ \A k \in DOMAIN conversations :
          Cardinality({f \in Flows : /\ flows[f].pc = "done"
                                     /\ FlowKey(f) = k
                                     /\ flows[f].created}) <= 1
    /\ Len(heap) = Cardinality(DOMAIN conversations)

C11_Witness ==
    \E f \in Flows, g \in Flows :
        /\ f # g
        /\ flows[f].pc = "done" /\ flows[g].pc = "done"
        /\ FlowKey(f) = FlowKey(g)
        /\ FlowKey(f) \notin flows[f].seen
        /\ FlowKey(g) \notin flows[g].seen
        /\ flows[f].handle = flows[g].handle

IsRelated == last.op = "get_related_embeddings"
Similarity(i) == cosine_similarity(last.pre, embeddings[i].embedding)
Qualifying ==
    {i \in 1..Len(embeddings) : Similarity(i) >= last.conf.min_relatedness}

\* C12: with top_n >= 0, get_related_embeddings returns at most top_n
\* entries, none with a similarity below min_relatedness, in non-increasing
\* order of similarity.
C12_RelatedBounded ==
    (IsRelated /\ last.conf.top_n >= 0) =>
        LET ret == last.ret.entries
        IN  /\ Len(ret) <= last.conf.top_n
            /\ \A i \in 1..Len(ret) : ret[i][2] >= last.conf.min_relatedness
            /\ \A i \in 1..Len(ret), j \in 1..Len(ret) :
                  i < j => ret[i][2] >= ret[j][2]

C12_Witness ==
    /\ IsRelated
    /\ last.pre # <<>>
    /\ last.conf.top_n >= 1
    /\ Len(last.ret.entries) = last.conf.top_n
    /\ Cardinality(Qualifying) > last.conf.top_n
    /\ Cardinality(Qualifying) < Len(embeddings)
    /\ \E i \in 1..Len(last.ret.entries) :
          last.ret.entries[i][2] = last.conf.min_relatedness

\* C13: with top_n = 0, an empty store or an empty query,
\* get_related_embeddings returns the empty list without raising and without
\* computing a similarity.
C13_RelatedEmpty ==
    (IsRelated /\ (last.conf.top_n = 0 \/ embeddings = <<>> \/ last.pre = <<>>)) =>
        /\ last.ret.entries = <<>>
        /\ last.ret.computed = 0
        /\ ~last.raised

C13_Witness ==
    /\ IsRelated
    /\ last.conf.top_n = 0
    /\ embeddings # <<>>
    /\ last.pre # <<>>
    /\ last.ret.entries = <<>>
    /\ last.ret.computed = 0

\* entry i of the store comes before entry j in the reference order: higher
\* similarity first, equal similarities in storage order
RankedBefore(i, j) ==
    Similarity(i) > Similarity(j) \/ (Similarity(i) = Similarity(j) /\ i < j)

Rank(i) == Cardinality({j \in Qualifying : RankedBefore(j, i)}) + 1

\* C18: for a non-empty query and top_n >= 0 the list returned is the
\* reference result: of the entries with similarity >= min_relatedness,
\* ranked by similarity descending with ties in storage order, exactly the
\* first top_n (or all, if fewer qualify), each with its text and similarity.
C18_RelatedIsReference ==
    (IsRelated /\ last.conf.top_n >= 0 /\ last.pre # <<>>) =>
        LET ret == last.ret.entries
            n == IF Cardinality(Qualifying) < last.conf.top_n
                 THEN Cardinality(Qualifying) ELSE last.conf.top_n
        IN  /\ Len(ret) = n
            /\ \A i \in Qualifying :
                  Rank(i) <= n =>
                      ret[Rank(i)] = <<embeddings[i].text, Similarity(i)>>

C18_Witness ==
    /\ IsRelated
    /\ last.pre # <<>>
    /\ last.conf.top_n >= 1
    /\ Len(last.ret.entries) = last.conf.top_n
    /\ \E i \in Qualifying, j \in Qualifying :
          /\ i < j
          /\ Similarity(i) = Similarity(j)
          /\ Rank(i) = last.conf.top_n
          /\ last.ret.entries[last.conf.top_n] = <<embeddings[i].text, Similarity(i)>>

\* C14: get_embedding_async invokes the provider at most 3 times, returns
\* the first vector the provider returns without a further call, returns the
\* empty vector when all 3 calls fail, never raises, and always terminates.
C14_FetchBounded ==
    /\ [](/\ fetch.calls <= 3
          /\ ~fetch.raised
          /\ fetch.pc = "awaiting" => fetch.calls = Len(fetch.log) + 1
          /\ (fetch.pc = "done" /\ last.op = "provider_returns") =>
                /\ fetch.result = last.ret
                /\ fetch.calls = Len(fetch.log) + 1
          /\ (fetch.pc = "done" /\ last.op = "provider_raises") =>
                /\ fetch.result = <<>>
                /\ fetch.calls = 3
                /\ Len(fetch.log) = 3)
    /\ (fetch.pc = "awaiting") ~> (fetch.pc = "done")

C14_Witness ==
    /\ fetch.pc = "done"
    /\ last.op = "provider_raises"
    /\ fetch.calls = 3
    /\ fetch.result = <<>>

RECURSIVE Flatten(_)
Flatten(chunks) ==
    IF chunks = <<>> THEN <<>> ELSE Head(chunks) \o Flatten(Tail(chunks))

\* C15: for max_tokens >= 1 every chunk of token_pagify holds between 1 and
\* max_tokens tokens, every chunk but the last holds exactly max_tokens, the
\* token chunks concatenated in order are encode(text), each text chunk is
\* the decoding of its token chunk, and the empty text yields no chunks.
C15_PagifyPartitionsTokens ==
    last.op = "token_pagify" =>
        LET chunks == last.ret.token_chunks
            texts == last.ret.text_chunks
            max_tokens == last.pre.max_tokens
        IN  /\ \A i \in 1..Len(chunks) :
                  /\ Len(chunks[i]) >= 1
                  /\ Len(chunks[i]) <= max_tokens
                  /\ i < Len(chunks) => Len(chunks[i]) = max_tokens
            /\ Flatten(chunks) = encode(last.pre.text)
            /\ Len(texts) = Len(chunks)
            /\ \A i \in 1..Len(texts) : texts[i] = Flatten(chunks[i])
            /\ last.pre.text = <<>> => texts = <<>>

C15_Witness ==
    /\ last.op = "token_pagify"
    /\ last.pre.max_tokens = 2
    /\ Len(last.ret.token_chunks) = 2
    /\ Len(last.ret.token_chunks[2]) = 1
    /\ \E i \in 1..2 : <<"a", "b">> \in
            {last.ret.token_chunks[i][j] :
                j \in 1..Len(last.ret.token_chunks[i])}

\* C16: a policy with a field outside its documented range is rejected when
\* it is constructed, so no operation ever runs with one: a cleanup that
\* has run had max_retention >= 0.
C16_NoOperationWithInvalidPolicy ==
    last.op = "cleanup" => last.conf.max_retention >= 0

\* C17: prepare_chat changes the content of a stored message only when one
\* message remains after the drops and the conversation is still over
\* budget; that message's content then becomes the first chunk of its split
\* at round(0.9 * max_tokens) tokens and holds at most that many tokens; in
\* every other case, and whenever more than one message remains, the
\* remaining messages are as they were stored.
C17_TruncateOnlySoleSurvivor ==
    IsPrepare =>
        LET pre == last.pre
            k == Len(pre) - Len(Stored)
            survivors == Suffix(pre, k)
            limit == round_09(last.conf.max_tokens)
        IN  /\ k >= 0
            /\ Len(Stored) > 1 => Stored = survivors
            /\ IF Len(Stored) = 1 /\ over_budget(survivors, last.conf)
               THEN LET chunks == token_pagify(survivors[1].content, limit)
                    IN  /\ chunks # <<>>
                        /\ Stored[1].content = chunks[1]
                        /\ Stored[1].role = survivors[1].role
                        /\ num_tokens_from_string(Stored[1].content) <= limit
               ELSE Stored = survivors

C20_PrepareWithinBudgetReadOnly ==
    (IsPrepare /\ 20 * conversation_token_count(last.pre, last.conf)
                    <= 19 * last.conf.max_tokens) =>
        /\ ~last.raised
        /\ Stored = last.pre
        /\ Len(last.ret) = HeadLen + Len(last.pre)
        /\ ReturnedHistory = last.pre

C20_Witness ==
    /\ IsPrepare
    /\ HeadLen = 2
    /\ Len(last.pre) = 2
    /\ conversation_token_count(last.pre, last.conf) >= 2
    /\ 20 * conversation_token_count(last.pre, last.conf)
          <= 19 * last.conf.max_tokens
    /\ Stored = last.pre
    /\ ReturnedHistory = last.pre

Writing == {t \in SaveTasks : saver.task[t] = "writing"}

\* C21: under any interleaving of save() calls at most one write of the
\* config file is in flight, a _save task that finds saving = True ends
\* without writing, saving is True exactly while a write is in flight (so
\* it is False after every write, returned or raised), and a set flag is
\* always cleared again.
C21_SingleWriterFlagReleased ==
    /\ [](/\ Cardinality(Writing) <= 1
          /\ saver.saving <=> Writing # {}
          /\ (last.op = "_save" /\ last.flag) =>
                saver.task[last.h] = "skipped"
          /\ (last.op = "_save" /\ ~last.flag) =>
                saver.task[last.h] = "writing"
          /\ last.op \in {"write_returns", "write_raises"} =>
                ~saver.saving)
    /\ saver.saving ~> ~saver.saving

C21_Witness ==
    /\ last.op = "write_raises"
    /\ ~saver.saving
    /\ \E t \in SaveTasks : saver.task[t] = "skipped"
    /\ \E t \in SaveTasks : saver.task[t] = "scheduled"

\* C22: with a cost object and a nonzero cost, cost_check returns True only
\* with exactly the cost withdrawn and the usage recorded once; whenever it
\* returns False nothing was withdrawn and no usage was recorded; without a
\* cost object or with cost 0 it returns True and withdraws nothing.
C22_PaidExactlyWhenTrue ==
    payment.pc = "done" =>
        /\ (payment.ret = "True" /\ payment.has_cost /\ payment.cost # 0) =>
              /\ payment.withdrawn = payment.cost
              /\ payment.usage = 1
        /\ payment.ret = "False" =>
              /\ payment.withdrawn = 0
              /\ payment.usage = 0
        /\ (~payment.has_cost \/ payment.cost = 0) =>
              /\ payment.ret = "True"
              /\ payment.withdrawn = 0

\* bank.can_spend passed, the balance fell before the withdrawal, and
\* withdraw_credits raised ValueError
C22_Witness ==
    /\ payment.pc = "done"
    /\ last.op = "withdraw_credits"
    /\ payment.checked
    /\ payment.cost > 0
    /\ payment.ret = "False"
    /\ payment.withdrawn = 0
    /\ payment.usage = 0

====
